---- MODULE Spec2Model ----
(***************************************************************************)
(* A model of pygameflow: the EventManager registry and its dispatch, the  *)
(* Window run loop with its motion demultiplexer, View activation, the     *)
(* process-wide window commands, and UserEvent scheduling.                 *)
(*                                                                         *)
(* A callable is a record [owner, name]: owner 0 is the Window itself,     *)
(* owner v > 0 is View v, and name is the function's __name__.  An event   *)
(* type is a record [base, off] standing for the integer base + off, so    *)
(* pygame.USEREVENT + n is [base |-> "USEREVENT", off |-> n].              *)
(***************************************************************************)
EXTENDS Integers, Sequences, FiniteSets, TLC

VARIABLES
    pc,              \* position of the program: main code or a step of Window.run
    views,           \* the View objects constructed so far (all on the one Window)
    bind,            \* Window attribute name -> owner of the callable it resolves to
    event_handlers,  \* EventManager.event_handlers: type -> insertion-ordered slots
    batch,           \* the events returned by pygame.event.get(), not yet dispatched
    idx,             \* position of the handlers.values() iterator (0: not iterating)
    iterLen,         \* size of the handlers dict when the iterator was created
    ctx_active,      \* _WindowContext.active
    pg_init,         \* the pygame runtime is initialised (pygame.quit() clears it)
    err,             \* the exception propagating out of the current operation
    call,            \* what the last step invoked (observation of the step)
    switch,          \* a callback of the event in dispatch showed a View
    steps,           \* the steps of the current loop iteration, in the order taken
    polled,          \* what pygame.event.get() returned to the handle_events in progress
    snap,            \* per event begun: the callbacks registered for its type just then
    log,             \* the callbacks handle_events has called, with the event's position
    shown,           \* the View a callback of this run showed last (0: none since a
                     \* construction or the start of the run)
    queue,           \* the pygame event queue (events posted, not yet polled)
    counter,         \* UserEvent._counter
    timers,          \* pygame timers: user event number -> interval in ms (0: none)
    scheduled,       \* user events whose last (un)schedule call was a schedule that returned
    created,         \* the types of the UserEvent objects, in creation order
    payload,         \* event.dict of the UserEvent objects, in creation order
    hist,            \* the add/remove calls made on a bare EventManager
    recent,          \* the last calls of the main program, with the state each left
    wins,            \* the Window objects constructed (window_commands model)
    _window,         \* window_commands._window (0 is None)
    result,          \* outcome of the last window_commands call
    gfx              \* window.py's module globals, each Window's _background_color, the
                     \* last Window's antialiasing and
                     \* vsync arguments, and the vsync given to display.set_mode

vars == <<pc, views, bind, event_handlers, batch, idx, iterLen, steps, polled, snap, log,
          shown, ctx_active,
          pg_init, err, call, switch, queue, counter, timers, scheduled, created, payload,
          hist, recent, wins, _window, result, gfx>>

obsVars  == <<steps, polled, snap, log, shown>>
loopVars == <<pc, batch, idx, iterLen, ctx_active, pg_init, err, call, switch, obsVars>>
viewVars == <<views, bind, event_handlers>>
userVars == <<queue, counter, timers, scheduled, created, payload>>
regVars  == <<hist, recent>>
cmdVars  == <<wins, _window, result, gfx>>

----------------------------------------------------------------------------
(* Bounds *)

MaxViews == 2
MaxBatch == 2
MaxCalls == 3
MaxWindows == 3
MaxUserEvents == 1
MaxQueue == 2
MaxMs == 2
MaxCmds == 4
MaxCreated == 3

----------------------------------------------------------------------------
(* Event types *)

T(b) == [base |-> b, off |-> 0]

UserType(n) == [base |-> "USEREVENT", off |-> n]

WindowSelf == 0

Method(o, n) == [owner |-> o, name |-> n]

----------------------------------------------------------------------------
(* EventManager: add_event_handler / remove_event_handler.                 *)
(* A dict is a sequence of slots [name, cb] in insertion order; a type     *)
(* that was never added is outside DOMAIN eh.                              *)

IndexOf(s, n) ==
    IF \E i \in 1..Len(s) : s[i].name = n
    THEN CHOOSE i \in 1..Len(s) : s[i].name = n
    ELSE 0

SetDefault(eh, t) ==
    IF t \in DOMAIN eh THEN eh ELSE [x \in DOMAIN eh \cup {t} |-> IF x = t THEN <<>> ELSE eh[x]]

DictSetAlwaysAppend(s, n, cb) == Append(s, [name |-> n, cb |-> cb])

DictSet(s, n, cb) ==
    IF IndexOf(s, n) = 0
    THEN Append(s, [name |-> n, cb |-> cb])
    ELSE [s EXCEPT ![IndexOf(s, n)] = [name |-> n, cb |-> cb]]

DictPop(s, n) ==
    IF IndexOf(s, n) = 0 THEN s
    ELSE SubSeq(s, 1, IndexOf(s, n) - 1) \o SubSeq(s, IndexOf(s, n) + 1, Len(s))

add_event_handler(eh, t, cb) ==
    LET d == SetDefault(eh, t)
    IN  [d EXCEPT ![t] = DictSet(d[t], cb.name, cb)]

remove_event_handler(eh, t, cb) ==
    IF t \in DOMAIN eh /\ eh[t] # <<>>
    THEN [eh EXCEPT ![t] = DictPop(eh[t], cb.name)]
    ELSE eh

EmptyManager == [x \in {} |-> <<>>]

----------------------------------------------------------------------------
(* Window: attributes, defaults and __register_events *)

Installed ==
    {"on_draw", "on_update", "on_key_press", "on_key_release", "on_mouse_leave",
     "on_mouse_enter", "on_mouse_press", "on_mouse_release", "on_mouse_scroll"}

WindowAttrs ==
    Installed \cup {"close", "on_focus", "on_blur", "__on_mouse_motion",
                    "on_mouse_motion", "on_mouse_drag", "on_resize"}

Registrations ==
    << <<"QUIT", "close">>,
       <<"WINDOWFOCUSGAINED", "on_focus">>,
       <<"WINDOWFOCUSLOST", "on_blur">>,
       <<"KEYDOWN", "on_key_press">>,
       <<"KEYUP", "on_key_release">>,
       <<"WINDOWLEAVE", "on_mouse_leave">>,
       <<"WINDOWENTER", "on_mouse_enter">>,
       <<"MOUSEMOTION", "__on_mouse_motion">>,
       <<"MOUSEBUTTONDOWN", "on_mouse_press">>,
       <<"MOUSEBUTTONUP", "on_mouse_release">>,
       <<"MOUSEWHEEL", "on_mouse_scroll">>,
       <<"WINDOWRESIZED", "on_resize">> >>

BuiltinTypes == {T(Registrations[i][1]) : i \in DOMAIN Registrations}

RECURSIVE RegisterFrom(_, _, _)
RegisterFrom(eh, b, i) ==
    IF i > Len(Registrations) THEN eh
    ELSE RegisterFrom(
             add_event_handler(eh, T(Registrations[i][1]),
                               Method(b[Registrations[i][2]], Registrations[i][2])),
             b, i + 1)

register_events(eh, b) == RegisterFrom(eh, b, 1)

DefaultBind == [a \in WindowAttrs |-> WindowSelf]

----------------------------------------------------------------------------
(* Observation of a step *)

\* a dict argument: None, or the items of a dict in their order
NoDict == [given |-> "None", items |-> <<>>]

NoEffect ==
    [kind |-> "none", view |-> 0, ev |-> 0, ms |-> 0, dict |-> NoDict,
     type |-> T("NONE"), handler |-> "none"]

NoCall ==
    [cb |-> Method(-1, "none"), type |-> T("NONE"), args |-> <<>>,
     buttons |-> <<>>, inner |-> <<>>, effect |-> NoEffect, active |-> 0, setup |-> <<>>]

NoResult == [op |-> "none", outcome |-> "none", value |-> 0]

----------------------------------------------------------------------------
(* window.py: the antialiasing and vsync globals.  Inside class Window the *)
(* names __AA_ENABLED and __VSYNC_ENABLED are private names, which Python  *)
(* mangles to _Window__AA_ENABLED and _Window__VSYNC_ENABLED, also in the  *)
(* global statement; the module-level functions use the plain names.       *)

\* a Python bool, written as a string beside the values "unset" and "none"
Flags == {"False", "True"}

Windows == 1..MaxWindows

\* colours; pygame.Color((255, 255, 255)) is white
Colors == {"white", "black", "red"}

ModuleGlobals ==
    [__AA_ENABLED |-> "False", __VSYNC_ENABLED |-> "False",
     _Window__AA_ENABLED |-> "unset", _Window__VSYNC_ENABLED |-> "unset",
     antialiasing |-> "none", vsync |-> "none", set_mode_vsync |-> "none",
     _background_color |-> [w \in Windows |-> "none"]]

is_aa_enabled(g) == g.__AA_ENABLED

is_vsync_enabled(g) == g.__VSYNC_ENABLED

\* global __AA_ENABLED, __VSYNC_ENABLED; __AA_ENABLED = antialiasing; ...
Window_init_globals(g, a, v) ==
    [g EXCEPT !._Window__AA_ENABLED = a, !._Window__VSYNC_ENABLED = v,
              !.antialiasing = a, !.vsync = v]

\* self._background_color = pygame.Color((255, 255, 255))
Window_init_color(g, w) == [g EXCEPT !._background_color[w] = "white"]

\* Window.background_color, the property
Window_background_color(g, w) == g._background_color[w]

\* Window.background_color = value
Window_set_background_color(g, w, value) == [g EXCEPT !._background_color[w] = value]

\* color = color if color is not None else self.background_color;
\* self._screen.fill(color)
Window_clear(g, w, color) == IF color # "None" THEN color ELSE Window_background_color(g, w)

\* pygame.display.set_mode(size=..., flags=..., vsync=is_vsync_enabled())
set_mode(g) == [g EXCEPT !.set_mode_vsync = is_vsync_enabled(g)]

----------------------------------------------------------------------------
(* Initial states *)

LoopInit ==
    /\ pc = "main"
    /\ batch = <<>>
    /\ idx = 0
    /\ iterLen = 0
    /\ ctx_active = FALSE
    /\ pg_init = TRUE
    /\ err = "none"
    /\ call = NoCall
    /\ switch = "no"
    /\ steps = <<>>
    /\ polled = <<>>
    /\ snap = <<>>
    /\ log = <<>>
    /\ shown = 0

ViewInit ==
    /\ views = {}
    /\ bind = DefaultBind
    /\ event_handlers = register_events(EmptyManager, DefaultBind)

UserInit ==
    /\ queue = <<>>
    /\ counter = 0
    /\ timers = [e \in 1..MaxCreated |-> 0]
    /\ scheduled = {}
    /\ created = <<>>
    /\ payload = <<>>

RegInit == hist = <<>> /\ recent = <<>>

CmdInit ==
    /\ wins = {1}
    /\ _window = 1
    /\ result = NoResult
    /\ gfx = Window_init_color(Window_init_globals(ModuleGlobals, "False", "False"), 1)

Init == LoopInit /\ ViewInit /\ UserInit /\ RegInit /\ CmdInit

----------------------------------------------------------------------------
(* SpecReg: a bare EventManager driven by add/remove calls *)

RegOwners == {WindowSelf, 1}

RegCallbacks == {Method(o, n) : o \in RegOwners, n \in {"on_key_press", "handler"}}

RegTypes == {T("KEYDOWN"), UserType(1)}

InitReg ==
    /\ LoopInit /\ UserInit /\ RegInit /\ CmdInit
    /\ views = {}
    /\ bind = DefaultBind
    /\ event_handlers = EmptyManager

AddEventHandler(t, cb) ==
    /\ Len(hist) < MaxCalls
    /\ event_handlers' = add_event_handler(event_handlers, t, cb)
    /\ hist' = Append(hist, [op |-> "add", type |-> t, cb |-> cb])
    /\ UNCHANGED <<loopVars, views, bind, userVars, recent, cmdVars>>

RemoveEventHandler(t, cb) ==
    /\ Len(hist) < MaxCalls
    /\ event_handlers' = remove_event_handler(event_handlers, t, cb)
    /\ hist' = Append(hist, [op |-> "remove", type |-> t, cb |-> cb])
    /\ UNCHANGED <<loopVars, views, bind, userVars, recent, cmdVars>>

NextReg ==
    \E t \in RegTypes, cb \in RegCallbacks :
        \/ AddEventHandler(t, cb)
        \/ RemoveEventHandler(t, cb)

SpecReg == InitReg /\ [][NextReg]_vars

SlotSet(eh, t) == IF t \in DOMAIN eh THEN {eh[t][i] : i \in DOMAIN eh[t]} ELSE {}

Front(s) == SubSeq(s, 1, Len(s) - 1)

RECURSIVE Replay(_, _)
Replay(h, t) ==
    IF h = <<>> THEN {}
    ELSE LET prev == Replay(Front(h), t)
             c == h[Len(h)]
             others == {s \in prev : s.name # c.cb.name}
         IN  IF c.type # t THEN prev
             ELSE IF c.op = "add" THEN others \cup {[name |-> c.cb.name, cb |-> c.cb]}
             ELSE others

OneSlotPerName(eh) ==
    \A t \in DOMAIN eh : \A i, j \in DOMAIN eh[t] : eh[t][i].name = eh[t][j].name => i = j

\* C1: after any sequence of add_event_handler / remove_event_handler calls the
\* handler table of every type equals the replay of the calls with "add stores
\* under the callback's name, replacing; remove deletes the name if present,
\* else nothing", and no type holds two slots of one name.
C1_ReplayEquivalence ==
    /\ \A t \in RegTypes : SlotSet(event_handlers, t) = Replay(hist, t)
    /\ OneSlotPerName(event_handlers)

\* Witness of C1: an add, a same-name add of another callback for the same type
\* (an overwrite), then a remove of a name the type does not hold.
C1_Witness ==
    /\ Len(hist) = 3
    /\ hist[1].op = "add" /\ hist[2].op = "add" /\ hist[3].op = "remove"
    /\ hist[1].type = hist[2].type /\ hist[3].type = hist[1].type
    /\ hist[1].cb.name = hist[2].cb.name /\ hist[1].cb # hist[2].cb
    /\ hist[3].cb.name # hist[1].cb.name
    /\ SlotSet(event_handlers, hist[1].type) = {[name |-> hist[2].cb.name, cb |-> hist[2].cb]}

----------------------------------------------------------------------------
(* The mutable program state as a record, so that an operation is a        *)
(* function from state to state and a callback can apply one in a step.    *)

Cur ==
    [views |-> views, bind |-> bind, eh |-> event_handlers, queue |-> queue,
     payload |-> payload, timers |-> timers, ctx_active |-> ctx_active, pg_init |-> pg_init,
     err |-> "none", inner |-> <<>>, effect |-> NoEffect, setup |-> <<>>]

Commit(st) ==
    /\ views' = st.views
    /\ bind' = st.bind
    /\ event_handlers' = st.eh
    /\ queue' = st.queue
    /\ payload' = st.payload
    /\ timers' = st.timers
    /\ ctx_active' = st.ctx_active
    /\ pg_init' = st.pg_init
    /\ err' = st.err

Raise(st, e) == [st EXCEPT !.err = e]

Called(st, m, args) == [st EXCEPT !.inner = Append(@, [cb |-> m, args |-> args])]

----------------------------------------------------------------------------
(* View *)

Views == 1..MaxViews

register_callers_stale(st, v) ==
    [st EXCEPT !.bind = [a \in WindowAttrs |-> IF a \in Installed THEN v ELSE st.bind[a]]]

register_callers_partial(st, v) ==
    LET b == [a \in WindowAttrs |-> IF a \in {"on_draw", "on_update"} THEN v ELSE st.bind[a]]
    IN  [st EXCEPT !.bind = b, !.eh = register_events(st.eh, b)]

register_callers_fresh(st, v) ==
    LET b == [a \in WindowAttrs |-> IF a \in Installed THEN v ELSE st.bind[a]]
    IN  [st EXCEPT !.bind = b, !.eh = register_events(EmptyManager, b)]

register_callers(st, v) ==
    LET b == [a \in WindowAttrs |-> IF a \in Installed THEN v ELSE st.bind[a]]
    IN  [st EXCEPT !.bind = b, !.eh = register_events(st.eh, b)]

View_init(st, v) == register_callers([st EXCEPT !.views = @ \cup {v}], v)

View_show_setup_only(st, v) == Called(st, Method(v, "setup"), <<>>)

\* what a setup() call finds installed when it starts
Seen(st, v) == [view |-> v, bind |-> st.bind, eh |-> st.eh]

View_show_setup_first(st, v) ==
    register_callers([Called(st, Method(v, "setup"), <<>>)
                         EXCEPT !.setup = Append(@, Seen(st, v))], v)

\* self.__register_callers(); self.setup()
View_show(st, v) ==
    LET r == register_callers(st, v)
    IN  [Called(r, Method(v, "setup"), <<>>) EXCEPT !.setup = Append(@, Seen(r, v))]

----------------------------------------------------------------------------
(* UserEvent and _time: timers and posting *)

create_new_userevent_stale(c) == [counter |-> c + 1, type |-> UserType(c)]

\* cls._counter += 1; event_type = pygame.USEREVENT + cls._counter
create_new_userevent(c) == [counter |-> c + 1, type |-> UserType(c + 1)]

get_userevent_count(c) == c

UserEv(e) == [type |-> UserType(e), buttons |-> <<>>]

set_timer(tm, e, ms) == [tm EXCEPT ![e] = ms]

schedule_accepts_zero(st, e, ms) ==
    IF ms < 0 THEN Raise(st, "RuntimeError")
    ELSE [st EXCEPT !.timers = set_timer(@, e, ms)]

unschedule_nothing(st, e) == st

schedule(st, e, ms) ==
    IF ms <= 0 THEN Raise(st, "RuntimeError")
    ELSE [st EXCEPT !.timers = set_timer(@, e, ms)]

unschedule_all(st, e) == [st EXCEPT !.timers = [x \in DOMAIN @ |-> 0]]

\* pygame.time.set_timer(event, 0)
unschedule(st, e) == [st EXCEPT !.timers = set_timer(@, e, 0)]

UserEvent_schedule(st, e, ms) ==
    IF ms <= 0 THEN Raise(st, "RuntimeError")
    ELSE [st EXCEPT !.timers = set_timer(@, e, ms)]

UserEvent_unschedule(st, e) == [st EXCEPT !.timers = set_timer(@, e, 0)]

\* the attributes an event may have; "absent" where it has none of the name
Fields == {"pgf_name", "a", "b"}

Values == {"p", "q"}

NoPayload == [f \in Fields |-> "absent"]

\* setattr(self.event, name, value)
setattr(p, name, value) == [p EXCEPT ![name] = value]

\* for name, value in _dict.items(): setattr(self.event, name, value)
RECURSIVE SetAll(_, _)
SetAll(p, items) ==
    IF items = <<>> THEN p
    ELSE SetAll(setattr(p, items[1][1], items[1][2]), Tail(items))

\* if _dict: None and the empty dict are false
Truthy(d) == d.given = "dict" /\ d.items # <<>>

\* pygame.event.Event(event_type, **(_dict or {})), then
\* setattr(self.event, "pgf_name", name)
UserEvent_init(name, d) ==
    setattr(SetAll(NoPayload, IF Truthy(d) THEN d.items ELSE <<>>), "pgf_name", name)

UserEvent_post_replaces(st, e, d) ==
    [st EXCEPT !.payload[e] = IF Truthy(d) THEN SetAll(NoPayload, d.items) ELSE @,
               !.queue = Append(@, UserEv(e))]

\* if _dict: setattr each item on self.event; pygame.event.post(self.event)
UserEvent_post(st, e, d) ==
    [st EXCEPT !.payload[e] = IF Truthy(d) THEN SetAll(@, d.items) ELSE @,
               !.queue = Append(@, UserEv(e))]

----------------------------------------------------------------------------
(* Window.close and the _WindowContext around the loop *)

\* pygame.quit(); sys.exit()
exit(st) == Raise([st EXCEPT !.pg_init = FALSE], "SystemExit")

Window_close_returns(st) == [st EXCEPT !.ctx_active = FALSE]

Window_close(st) == exit([st EXCEPT !.ctx_active = FALSE])

WindowContext_exit_closes(st) ==
    Window_close(Called([st EXCEPT !.ctx_active = FALSE], Method(WindowSelf, "close"), <<>>))

WindowContext_exit_silent(st) ==
    IF st.err # "none" THEN st ELSE [st EXCEPT !.ctx_active = FALSE]

\* _WindowContext.__exit__: with an exception in flight it returns False and
\* the exception goes on; otherwise active = False and window.close()
WindowContext_exit(st) ==
    IF st.err # "none" THEN st
    ELSE Window_close(Called([st EXCEPT !.ctx_active = FALSE],
                             Method(WindowSelf, "close"), <<>>))

----------------------------------------------------------------------------
(* What user code (a View's method, a plain function) may do when called *)

ApplyEffect(st, eff) ==
    LET s == [st EXCEPT !.effect = eff]
    IN  CASE eff.kind = "show" -> View_show(s, eff.view)
          [] eff.kind = "raise" -> Raise(s, "UserError")
          [] eff.kind = "close" -> Window_close(s)
          [] eff.kind = "deactivate" -> [s EXCEPT !.ctx_active = FALSE]
          [] eff.kind = "new" -> View_init(s, eff.view)
          [] eff.kind = "add_event_handler" ->
                [s EXCEPT !.eh = add_event_handler(@, eff.type, Method(-1, eff.handler))]
          [] eff.kind = "remove_event_handler" ->
                [s EXCEPT !.eh = remove_event_handler(@, eff.type, Method(-1, eff.handler))]
          [] eff.kind = "post" -> UserEvent_post(s, eff.ev, eff.dict)
          [] eff.kind = "schedule" -> schedule(s, eff.ev, eff.ms)
          [] eff.kind = "unschedule" -> unschedule(s, eff.ev)
          [] eff.kind = "UserEvent.schedule" -> UserEvent_schedule(s, eff.ev, eff.ms)
          [] eff.kind = "UserEvent.unschedule" -> UserEvent_unschedule(s, eff.ev)
          [] OTHER -> s

\* which user events the program has asked to be on a timer
Noted(S, st) ==
    CASE st.effect.kind \in {"schedule", "UserEvent.schedule"} /\ st.err = "none" ->
            S \cup {st.effect.ev}
      [] st.effect.kind \in {"unschedule", "UserEvent.unschedule"} -> S \ {st.effect.ev}
      [] OTHER -> S

\* which View a callback of the run showed last
Activated(v, st) ==
    CASE st.effect.kind = "show" -> st.effect.view
      [] st.effect.kind = "new" -> 0
      [] OTHER -> v

ViewEffects ==
    {NoEffect}
    \cup {[NoEffect EXCEPT !.kind = "show", !.view = u] : u \in views}
    \cup {[NoEffect EXCEPT !.kind = "new", !.view = u] : u \in Views \ views}

----------------------------------------------------------------------------
(* Window: close, the motion demultiplexer, and the call of a callback *)

Arity(n) ==
    CASE n = "close" -> 0..1
      [] n \in {"on_focus", "on_blur"} -> {1}
      [] n \in {"on_key_press", "on_key_release", "on_mouse_enter",
                "on_mouse_leave", "on_resize"} -> {2}
      [] n \in {"on_mouse_press", "on_mouse_release", "on_mouse_scroll"} -> {4}
      [] n = "on_mouse_motion" -> {5}
      [] n \in {"__on_mouse_motion", "on_mouse_drag"} -> {6}
      [] OTHER -> {0}

\* a plain function (owner -1) is the user's and takes what it is given
Accepts(m, n) == m.owner = -1 \/ n \in Arity(m.name)

RunMethod(st, m, args, eff) ==
    IF ~Accepts(m, Len(args)) THEN Raise(st, "TypeError")
    ELSE IF m.owner = WindowSelf THEN st
    ELSE ApplyEffect(st, eff)

Window__on_mouse_motion_left_only(st, args, buttons, eff) ==
    IF buttons[1] = 0
    THEN LET m == Method(st.bind["on_mouse_motion"], "on_mouse_motion")
             a == <<args[1], args[2], args[3], args[4], args[6]>>
         IN  RunMethod(Called(st, m, a), m, a, eff)
    ELSE LET m == Method(st.bind["on_mouse_drag"], "on_mouse_drag")
         IN  RunMethod(Called(st, m, args), m, args, eff)

Window__on_mouse_motion(st, args, buttons, eff) ==
    IF buttons = <<0, 0, 0>>
    THEN LET m == Method(st.bind["on_mouse_motion"], "on_mouse_motion")
             a == <<args[1], args[2], args[3], args[4], args[6]>>
         IN  RunMethod(Called(st, m, a), m, a, eff)
    ELSE LET m == Method(st.bind["on_mouse_drag"], "on_mouse_drag")
         IN  RunMethod(Called(st, m, args), m, args, eff)

Invoke(st, cb, args, buttons, eff) ==
    IF ~Accepts(cb, Len(args)) THEN Raise(st, "TypeError")
    ELSE IF cb = Method(WindowSelf, "close") THEN Window_close(st)
    ELSE IF cb = Method(WindowSelf, "__on_mouse_motion")
         THEN Window__on_mouse_motion(st, args, buttons, eff)
    ELSE RunMethod(st, cb, args, eff)

----------------------------------------------------------------------------
(* EventManager.handle_events *)

event_mapping(e) ==
    CASE e.type \in {T("KEYUP"), T("KEYDOWN")} -> <<"e.key", "e.mod">>
      [] e.type \in {T("WINDOWENTER"), T("WINDOWLEAVE")} -> <<"mouse.x", "mouse.y">>
      [] e.type = T("MOUSEMOTION") ->
            <<"e.pos.x", "e.pos.y", "e.rel.x", "e.rel.y", "e.buttons", "key.mods">>
      [] e.type \in {T("MOUSEBUTTONUP"), T("MOUSEBUTTONDOWN")} ->
            <<"e.pos.x", "e.pos.y", "e.button", "key.mods">>
      [] e.type = T("MOUSEWHEEL") -> <<"mouse.x", "mouse.y", "e.x", "e.y">>
      [] e.type = T("WINDOWRESIZED") -> <<"e.x", "e.y">>
      [] OTHER -> <<>>

Handlers(eh, t) == IF t \in DOMAIN eh THEN eh[t] ELSE <<>>

\* handlers.values()
Callbacks(h) == [i \in DOMAIN h |-> h[i].cb]

Observe(st, cb, e, active) ==
    [cb |-> cb, type |-> e.type, args |-> event_mapping(e), buttons |-> e.buttons,
     inner |-> st.inner, effect |-> st.effect, active |-> active, setup |-> st.setup]

----------------------------------------------------------------------------
(* The main program, before the loop runs *)

UserHandler == Method(-1, "handler")

Push(r, x) == IF Len(r) < 3 THEN Append(r, x) ELSE Append(Tail(r), x)

Entry(op, v, st) == [op |-> op, view |-> v, bind |-> st.bind, eh |-> st.eh]

MainStep(op, v, st) ==
    /\ Commit(st)
    /\ recent' = Push(recent, Entry(op, v, st))
    /\ call' = [NoCall EXCEPT !.cb = Method(v, op), !.inner = st.inner, !.setup = st.setup]
    /\ UNCHANGED <<pc, batch, idx, iterLen, obsVars, switch, counter, scheduled, created, hist, cmdVars>>

NewView(v) ==
    /\ pc = "main"
    /\ v \in Views \ views
    /\ MainStep("__init__", v, View_init(Cur, v))

Show(v) ==
    /\ pc = "main"
    /\ v \in views
    /\ MainStep("show", v, View_show(Cur, v))

AddHandler(t, cb) ==
    /\ pc = "main"
    /\ MainStep("add_event_handler", -1,
                [Cur EXCEPT !.eh = add_event_handler(event_handlers, t, cb)])

RemoveHandler(t, cb) ==
    /\ pc = "main"
    /\ MainStep("remove_event_handler", -1,
                [Cur EXCEPT !.eh = remove_event_handler(event_handlers, t, cb)])

\* Window.run up to the first loop check: set_mode, then _WindowContext.__enter__
Window_run(st) == [st EXCEPT !.ctx_active = TRUE]

WindowRun ==
    /\ pc = "main"
    /\ Commit(Window_run(Cur))
    /\ pc' = "while"
    /\ recent' = <<>>
    /\ call' = [NoCall EXCEPT !.cb = Method(WindowSelf, "run")]
    /\ gfx' = set_mode(gfx)
    /\ steps' = <<>>
    /\ shown' = 0
    /\ UNCHANGED <<batch, idx, iterLen, polled, snap, log, switch, counter, scheduled,
                   created, hist, wins, _window, result>>

ViewRun(v) ==
    /\ pc = "main"
    /\ v \in views
    /\ LET st == Window_run(View_show(Cur, v))
       IN  /\ Commit(st)
           /\ call' = [NoCall EXCEPT !.cb = Method(v, "run"), !.inner = st.inner,
                                     !.setup = st.setup]
    /\ pc' = "while"
    /\ recent' = <<>>
    /\ gfx' = set_mode(gfx)
    /\ steps' = <<>>
    /\ shown' = 0
    /\ UNCHANGED <<batch, idx, iterLen, polled, snap, log, switch, counter, scheduled,
                   created, hist, wins, _window, result>>

----------------------------------------------------------------------------
(* Window.run: the loop *)

Buttons == [1..3 -> {0, 1}]

Ev(b) == [type |-> T(b), buttons |-> <<>>]

AllEvents ==
    {Ev(t.base) : t \in BuiltinTypes \ {T("MOUSEMOTION")}}
    \cup {Ev("WINDOWSHOWN")}
    \cup {[type |-> T("MOUSEMOTION"), buttons |-> b] : b \in Buttons}

SeqsUpTo(K, n) == UNION {[1..m -> K] : m \in 0..n}

\* an exception leaves the loop body and run()
Unwind(st) == IF st.err # "none" THEN "done" ELSE pc

\* while runner.active: ...; on a false test __exit__ runs with no exception
While ==
    /\ pc = "while"
    /\ IF ctx_active
       THEN /\ pc' = "poll"
            /\ UNCHANGED <<ctx_active, pg_init, err>>
            /\ call' = NoCall
       ELSE /\ pc' = "done"
            /\ ctx_active' = WindowContext_exit(Cur).ctx_active
            /\ pg_init' = WindowContext_exit(Cur).pg_init
            /\ err' = WindowContext_exit(Cur).err
            /\ call' = [NoCall EXCEPT !.cb = Method(WindowSelf, "__exit__"),
                                      !.inner = WindowContext_exit(Cur).inner]
    /\ steps' = <<"check">>
    /\ UNCHANGED <<batch, idx, iterLen, polled, snap, log, shown, switch, viewVars, userVars,
                   regVars, cmdVars>>

Poll_system_first(K) ==
    /\ pc = "poll"
    /\ \E s \in SeqsUpTo(K, MaxBatch - Len(queue)) : batch' = s \o queue
    /\ queue' = <<>>
    /\ pc' = "events"
    /\ call' = NoCall
    /\ steps' = Append(steps, "poll")
    /\ polled' = batch'
    /\ snap' = <<>>
    /\ shown' = shown
    /\ log' = <<>>
    /\ UNCHANGED <<idx, iterLen, switch, ctx_active, pg_init, err, viewVars, counter,
                   timers, scheduled, created, payload, regVars, cmdVars>>

\* pygame.event.get(): what was posted, then what the system delivers
Poll(K) ==
    /\ pc = "poll"
    /\ \E s \in SeqsUpTo(K, MaxBatch - Len(queue)) : batch' = queue \o s
    /\ queue' = <<>>
    /\ pc' = "events"
    /\ call' = NoCall
    /\ steps' = Append(steps, "poll")
    /\ polled' = batch'
    /\ snap' = <<>>
    /\ shown' = shown
    /\ log' = <<>>
    /\ UNCHANGED <<idx, iterLen, switch, ctx_active, pg_init, err, viewVars, counter,
                   timers, scheduled, created, payload, regVars, cmdVars>>

\* for event in ...: if handlers := self.event_handlers.get(event.type):
NextEvent ==
    /\ pc = "events"
    /\ idx = 0
    /\ IF batch = <<>>
       THEN /\ pc' = "clear"
            /\ steps' = Append(steps, "dispatch")
            /\ UNCHANGED <<batch, idx, iterLen, snap>>
       ELSE IF Handlers(event_handlers, Head(batch).type) # <<>>
       THEN /\ idx' = 1
            /\ iterLen' = Len(Handlers(event_handlers, Head(batch).type))
            /\ snap' = Append(snap, Callbacks(Handlers(event_handlers, Head(batch).type)))
            /\ UNCHANGED <<pc, batch, steps>>
       ELSE /\ batch' = Tail(batch)
            /\ snap' = Append(snap, <<>>)
            /\ UNCHANGED <<pc, idx, iterLen, steps>>
    /\ switch' = "no"
    /\ call' = NoCall
    /\ UNCHANGED <<polled, log, shown, ctx_active, pg_init, err, viewVars, userVars, regVars,
                   cmdVars>>

\* for callback in handlers.values(): callback(*event_mapping...(event))
NextCallback(E) ==
    /\ pc = "events"
    /\ idx > 0
    /\ LET e == Head(batch)
           h == Handlers(event_handlers, e.type)
       IN  IF Len(h) # iterLen
           THEN /\ Commit(WindowContext_exit(Raise(Cur, "RuntimeError")))
                /\ pc' = "done"
                /\ idx' = 0
                /\ call' = NoCall
                /\ UNCHANGED <<batch, iterLen, log, shown, switch, scheduled>>
           ELSE IF idx > Len(h)
           THEN /\ idx' = 0
                /\ batch' = Tail(batch)
                /\ call' = NoCall
                /\ switch' = IF switch = "during" THEN "completed" ELSE switch
                /\ UNCHANGED <<pc, iterLen, log, shown, ctx_active, pg_init, err, viewVars,
                               queue, payload, timers, scheduled>>
           ELSE \E eff \in E :
                LET r == Invoke(Cur, h[idx].cb, event_mapping(e), e.buttons, eff)
                    st == IF r.err # "none" THEN WindowContext_exit(r) ELSE r
                IN  /\ Commit(st)
                    /\ call' = Observe(st, h[idx].cb, e, bind["on_draw"])
                    /\ pc' = Unwind(st)
                    /\ idx' = IF st.err # "none" THEN 0 ELSE idx + 1
                    /\ switch' = IF st.effect.kind = "show" THEN "during" ELSE switch
                    /\ scheduled' = Noted(scheduled, st)
                    /\ log' = Append(log, [ev |-> Len(snap), cb |-> h[idx].cb])
                    /\ shown' = Activated(shown, st)
                    /\ UNCHANGED <<batch, iterLen>>
    /\ UNCHANGED <<steps, polled, snap, counter, created, regVars, cmdVars>>

Clear_skips_update ==
    /\ pc = "clear"
    /\ pc' = "draw"
    /\ call' = NoCall
    /\ steps' = Append(steps, "clear")
    /\ polled' = <<>>
    /\ snap' = <<>>
    /\ shown' = shown
    /\ log' = <<>>
    /\ UNCHANGED <<batch, idx, iterLen, switch, ctx_active, pg_init, err, viewVars,
                   userVars, regVars, cmdVars>>

\* self.clear(): fill the screen with the background colour
Clear ==
    /\ pc = "clear"
    /\ pc' = "update"
    /\ call' = [NoCall EXCEPT !.cb = Method(WindowSelf, "clear"),
                              !.args = <<Window_clear(gfx, 1, "None")>>]
    /\ steps' = Append(steps, "clear")
    /\ polled' = <<>>
    /\ snap' = <<>>
    /\ shown' = shown
    /\ log' = <<>>
    /\ UNCHANGED <<batch, idx, iterLen, switch, ctx_active, pg_init, err, viewVars,
                   userVars, regVars, cmdVars>>

LoopCall(E, at, name, next) ==
    /\ pc = at
    /\ \E eff \in E :
          LET m == Method(bind[name], name)
              r == RunMethod(Cur, m, <<>>, eff)
              st == IF r.err # "none" THEN WindowContext_exit(r) ELSE r
          IN  /\ Commit(st)
              /\ call' = Observe(st, m, Ev("NONE"), bind["on_draw"])
              /\ pc' = IF st.err # "none" THEN "done" ELSE next
              /\ scheduled' = Noted(scheduled, st)
              /\ shown' = Activated(shown, st)
    /\ steps' = Append(steps, name)
    /\ UNCHANGED <<batch, idx, iterLen, polled, snap, log, switch, counter, created,
                   regVars, cmdVars>>

Update(E) == LoopCall(E, "update", "on_update", "draw")

Draw(E) == LoopCall(E, "draw", "on_draw", "flip")

\* pygame.display.flip()
Flip ==
    /\ pc = "flip"
    /\ pc' = "tick"
    /\ call' = NoCall
    /\ steps' = Append(steps, "flip")
    /\ UNCHANGED <<batch, idx, iterLen, polled, snap, log, shown, switch, ctx_active, pg_init,
                   err, viewVars,
                   userVars, regVars, cmdVars>>

\* self._clock.tick(1 / self.update_rate)
Tick ==
    /\ pc = "tick"
    /\ pc' = "while"
    /\ call' = NoCall
    /\ steps' = Append(steps, "tick")
    /\ UNCHANGED <<batch, idx, iterLen, polled, snap, log, shown, switch, ctx_active, pg_init,
                   err, viewVars,
                   userVars, regVars, cmdVars>>

Next ==
    \/ \E v \in Views : NewView(v)
    \/ \E v \in Views : Show(v)
    \/ \E v \in Views : ViewRun(v)
    \/ AddHandler(T("KEYDOWN"), UserHandler)
    \/ RemoveHandler(T("KEYDOWN"), UserHandler)
    \/ WindowRun
    \/ While
    \/ Poll(AllEvents)
    \/ NextEvent
    \/ NextCallback(ViewEffects)
    \/ Clear
    \/ Update(ViewEffects)
    \/ Draw(ViewEffects)
    \/ Flip
    \/ Tick

Spec == Init /\ [][Next]_vars

----------------------------------------------------------------------------
(* Claims about View activation and dispatch, checked under Spec *)

SlotOwners(eh, t) == {eh[t][i].cb.owner : i \in DOMAIN eh[t]}

HasSlot(eh, t, cb) == \E i \in DOMAIN Handlers(eh, t) : eh[t][i] = [name |-> cb.name, cb |-> cb]

\* the registry slots that __register_events takes from the installable bindings
InstalledSlots ==
    {r \in {Registrations[i] : i \in DOMAIN Registrations} : r[2] \in Installed}

OwnedBy(b, eh, v) ==
    /\ \A a \in Installed : b[a] = v
    /\ \A r \in InstalledSlots : HasSlot(eh, T(r[1]), Method(v, r[2]))

RefersTo(b, eh, v) ==
    \/ \E a \in WindowAttrs : b[a] = v
    \/ \E t \in DOMAIN eh : v \in SlotOwners(eh, t)

ShowedABA ==
    /\ Len(recent) = 3
    /\ \A i \in 1..3 : recent[i].op = "show"
    /\ recent[1].view = recent[3].view
    /\ recent[2].view # recent[1].view

\* C2: after A.show(); B.show(); A.show() the bindings and every registry slot
\* are what they were right after the first A.show(): the installable bindings
\* and their slots are A's, and no binding or slot refers to B.
C2_ShowRoundTrip ==
    ShowedABA =>
        /\ bind = recent[3].bind /\ event_handlers = recent[3].eh
        /\ recent[3].bind = recent[1].bind
        /\ recent[3].eh = recent[1].eh
        /\ OwnedBy(bind, event_handlers, recent[1].view)
        /\ ~RefersTo(bind, event_handlers, recent[2].view)

\* Witness of C2: A.show(); B.show(); A.show() was executed, and between them
\* B owned the bindings.
C2_Witness ==
    /\ ShowedABA
    /\ OwnedBy(recent[2].bind, recent[2].eh, recent[2].view)

KeyPressSwitch ==
    /\ call.type = T("KEYDOWN")
    /\ call.cb.name = "on_key_press"
    /\ call.cb.owner \in Views
    /\ call.effect.kind = "show"
    /\ call.effect.view # call.cb.owner

\* C3: when View1's on_key_press, called by the dispatch of a KEYDOWN event,
\* calls View2.show(), then on return the KEYDOWN entry of the registry holds
\* View2's on_key_press and not View1's, and the dispatch of the event goes on
\* and ends with no exception.
C3_SwitchInsideKeyPress ==
    /\ KeyPressSwitch =>
          /\ HasSlot(event_handlers, T("KEYDOWN"), Method(call.effect.view, "on_key_press"))
          /\ ~HasSlot(event_handlers, T("KEYDOWN"), call.cb)
          /\ pc = "events" /\ switch = "during"
    /\ switch # "no" => err = "none"

\* Witness of C3: the dispatch of an event during which a View was shown has
\* ended, all handlers of the event iterated, with View2 installed by View1.
C3_Witness ==
    /\ switch = "completed"
    /\ err = "none"
    /\ views = {1, 2}
    /\ HasSlot(event_handlers, T("KEYDOWN"), Method(2, "on_key_press"))
    /\ HasSlot(event_handlers, T("KEYDOWN"), UserHandler)

MotionDispatched ==
    /\ call.type = T("MOUSEMOTION")
    /\ call.cb = Method(WindowSelf, "__on_mouse_motion")

\* C4: a dispatched motion event invokes exactly one of on_mouse_motion and
\* on_mouse_drag: on_mouse_motion, without the buttons argument, when the
\* buttons tuple is (0,0,0), and on_mouse_drag, with it, otherwise.
C4_MotionDemux ==
    /\ HasSlot(event_handlers, T("MOUSEMOTION"), Method(WindowSelf, "__on_mouse_motion"))
    /\ MotionDispatched =>
          /\ Len(call.inner) = 1
          /\ IF call.buttons = <<0, 0, 0>>
             THEN /\ call.inner[1].cb.name = "on_mouse_motion"
                  /\ call.inner[1].args =
                        <<"e.pos.x", "e.pos.y", "e.rel.x", "e.rel.y", "key.mods">>
             ELSE /\ call.inner[1].cb.name = "on_mouse_drag"
                  /\ call.inner[1].args =
                        <<"e.pos.x", "e.pos.y", "e.rel.x", "e.rel.y", "e.buttons", "key.mods">>

\* Witness of C4: a motion event with the middle button held was dispatched
\* and routed to on_mouse_drag.
C4_Witness ==
    /\ MotionDispatched
    /\ call.buttons = <<0, 1, 0>>
    /\ call.inner[1].cb.name = "on_mouse_drag"

Surface ==
    Installed \cup {"__on_mouse_motion"}

Target(c) == IF c.cb.name = "__on_mouse_motion" THEN c.inner[1].cb ELSE c.cb

\* C5: while a View is the active View of the Window, every handler of the
\* View's surface that an event (or the update/draw step) calls is the View's
\* method, not the Window's default.
C5_ViewHandlersInvoked ==
    (call.active \in Views /\ call.cb.name \in Surface) => Target(call).owner = call.active

\* C6: constructing a View changes neither the Window's bindings nor any
\* registry slot, and does not call setup().
C6_ConstructionKeepsBindings ==
    [][views' # views =>
          /\ bind' = bind
          /\ event_handlers' = event_handlers
          /\ \A i \in DOMAIN call'.inner : call'.inner[i].cb.name # "setup"]_vars

----------------------------------------------------------------------------
(* SpecCmd: window_commands, with several Window objects.  A call that     *)
(* raises is caught by its caller, which goes on.                          *)

set_window_if_none(cur, w) == IF cur = 0 THEN w ELSE cur

set_window(cur, w) == w

get_window(cur) ==
    IF cur = 0 THEN [outcome |-> "RuntimeError", value |-> 0]
    ELSE [outcome |-> "return", value |-> cur]

\* get_window().close(), then _window = None if close() returns
close_window(cur, st) ==
    IF get_window(cur).outcome # "return"
    THEN [outcome |-> get_window(cur).outcome, st |-> st, window |-> cur]
    ELSE LET c == Window_close(st)
         IN  [outcome |-> IF c.err = "none" THEN "return" ELSE c.err,
              st |-> c,
              window |-> IF c.err = "none" THEN 0 ELSE cur]

InitCmd ==
    /\ LoopInit /\ ViewInit /\ UserInit /\ RegInit
    /\ wins = {}
    /\ _window = 0
    /\ result = NoResult
    /\ gfx = ModuleGlobals

CmdStep(op, w, outcome, value) ==
    /\ Len(hist) < MaxCmds
    /\ result' = [op |-> op, outcome |-> outcome, value |-> value]
    /\ hist' = Append(hist, [op |-> op, w |-> w, outcome |-> outcome, value |-> value,
                             after |-> _window', torn |-> ~pg_init'])
    /\ UNCHANGED <<pc, batch, idx, iterLen, obsVars, err, call, switch, viewVars, userVars, recent>>

\* Window.__init__ ends in set_window(self)
NewWindow(w) ==
    /\ w \in Windows \ wins
    /\ wins' = wins \cup {w}
    /\ _window' = set_window(_window, w)
    /\ gfx' = Window_init_color(Window_init_globals(gfx, "False", "False"), w)
    /\ UNCHANGED <<ctx_active, pg_init>>
    /\ CmdStep("Window", w, "return", w)

SetWindow(w) ==
    /\ w \in wins
    /\ _window' = set_window(_window, w)
    /\ UNCHANGED <<wins, ctx_active, pg_init, gfx>>
    /\ CmdStep("set_window", w, "return", 0)

GetWindow ==
    /\ UNCHANGED <<wins, _window, ctx_active, pg_init, gfx>>
    /\ CmdStep("get_window", 0, get_window(_window).outcome, get_window(_window).value)

CloseWindow ==
    /\ LET r == close_window(_window, Cur)
       IN  /\ _window' = r.window
           /\ ctx_active' = r.st.ctx_active
           /\ pg_init' = r.st.pg_init
           /\ UNCHANGED <<wins, gfx>>
           /\ CmdStep("close_window", 0, r.outcome, 0)

NextCmd ==
    \/ \E w \in Windows : NewWindow(w)
    \/ \E w \in Windows : SetWindow(w)
    \/ GetWindow
    \/ CloseWindow

SpecCmd == InitCmd /\ [][NextCmd]_vars

Setters == {"Window", "set_window"}

\* the window most recently set before call i, 0 if none was
LastSet(h, i) ==
    IF \E j \in 1..(i - 1) : h[j].op \in Setters
    THEN h[CHOOSE j \in 1..(i - 1) :
              /\ h[j].op \in Setters
              /\ \A k \in (j + 1)..(i - 1) : h[k].op \notin Setters].w
    ELSE 0

Before(h, i) == IF i = 1 THEN 0 ELSE h[i - 1].after

\* C7: get_window() raises the NotActive RuntimeError when no window has been
\* set, and then changes nothing; once a Window was constructed or set_window
\* was called it returns the window set most recently.
C7_GetWindow ==
    \A i \in DOMAIN hist :
        hist[i].op = "get_window" =>
            /\ hist[i].after = Before(hist, i)
            /\ IF LastSet(hist, i) = 0
               THEN hist[i].outcome = "RuntimeError"
               ELSE hist[i].outcome = "return" /\ hist[i].value = LastSet(hist, i)

\* Witness of C7: get_window() raised before any window existed, then two
\* windows were constructed and get_window() returned the second.
C7_Witness ==
    /\ Len(hist) = 4
    /\ hist[1].op = "get_window" /\ hist[1].outcome = "RuntimeError"
    /\ hist[2].op = "Window" /\ hist[3].op = "Window"
    /\ hist[4].op = "get_window" /\ hist[4].outcome = "return"
    /\ hist[4].value = hist[3].w /\ hist[3].w # hist[2].w

\* C8: after close_window() was called with an active window the runtime is
\* torn down and the active-window reference is cleared, so a later
\* get_window() raises NotActive.
C8_CloseClearsWindow ==
    \A i \in DOMAIN hist :
        (hist[i].op = "close_window" /\ Before(hist, i) # 0) =>
            /\ hist[i].torn
            /\ hist[i].after = 0
            /\ \A j \in (i + 1)..Len(hist) :
                  (hist[j].op = "get_window" /\ Before(hist, j) = hist[i].after)
                      => hist[j].outcome = "RuntimeError"

----------------------------------------------------------------------------
(* SpecTimer: user events on timers, posted and dispatched by the loop *)

UserEvents == 1..counter

Delays == (0 - MaxMs)..MaxMs

\* UserEvent.__init__ -> create_new_userevent
NewUserEvent ==
    /\ pc = "main"
    /\ counter < MaxUserEvents
    /\ counter' = create_new_userevent(counter).counter
    /\ created' = Append(created, create_new_userevent(counter).type)
    /\ payload' = Append(payload, UserEvent_init("None", NoDict))
    /\ call' = [NoCall EXCEPT !.cb = Method(-1, "UserEvent")]
    /\ UNCHANGED <<pc, batch, idx, iterLen, obsVars, ctx_active, pg_init, err, switch, viewVars,
                   queue, timers, scheduled, regVars, cmdVars>>

\* a call of the main program into the event API, its exception caught
UserCall(eff) ==
    /\ pc = "main"
    /\ LET st == ApplyEffect(Cur, eff)
       IN  /\ Commit([st EXCEPT !.err = "none"])
           /\ scheduled' = Noted(scheduled, st)
           /\ call' = [NoCall EXCEPT !.cb = Method(-1, eff.kind), !.effect = eff]
           /\ result' = [op |-> eff.kind,
                         outcome |-> IF st.err = "none" THEN "return" ELSE st.err,
                         value |-> eff.ms]
    /\ UNCHANGED <<pc, batch, idx, iterLen, obsVars, switch, counter, created, regVars, wins, _window,
                   gfx>>

Eff(k, e, ms) == [NoEffect EXCEPT !.kind = k, !.ev = e, !.ms = ms]

ScheduleEffects ==
    {Eff(k, e, ms) : k \in {"schedule", "UserEvent.schedule"}, e \in UserEvents, ms \in Delays}

UnscheduleEffects ==
    {Eff(k, e, 0) : k \in {"unschedule", "UserEvent.unschedule"}, e \in UserEvents}

PostEffects == {Eff("post", e, 0) : e \in {x \in UserEvents : Len(queue) < MaxQueue}}

TimerEffects == {NoEffect} \cup ScheduleEffects \cup UnscheduleEffects \cup PostEffects

\* the pygame timer of user event e elapses: the event is put on the queue
TimerFire(e) ==
    /\ e \in UserEvents
    /\ timers[e] > 0
    /\ pg_init
    /\ Len(queue) < MaxQueue
    /\ queue' = Append(queue, UserEv(e))
    /\ call' = [NoCall EXCEPT !.cb = Method(-1, "timer"), !.effect = Eff("timer", e, timers[e])]
    /\ UNCHANGED <<pc, batch, idx, iterLen, obsVars, ctx_active, pg_init, err, switch, viewVars,
                   counter, timers, scheduled, created, payload, regVars, cmdVars>>

TimerSystemEvents == {Ev("QUIT")}

LoopStep ==
    \/ While
    \/ Poll(TimerSystemEvents)
    \/ NextEvent
    \/ NextCallback(TimerEffects)
    \/ Clear
    \/ Update(TimerEffects)
    \/ Draw(TimerEffects)
    \/ Flip
    \/ Tick

NextTimer ==
    \/ NewUserEvent
    \/ \E eff \in ScheduleEffects : UserCall(eff)
    \/ \E eff \in UnscheduleEffects : UserCall(eff)
    \/ \E eff \in PostEffects : UserCall(eff)
    \/ \E e \in UserEvents : AddHandler(UserType(e), UserHandler)
    \/ \E e \in UserEvents : RemoveHandler(UserType(e), UserHandler)
    \/ WindowRun
    \/ LoopStep
    \/ \E e \in 1..MaxUserEvents : TimerFire(e)

\* the loop runs on while it can, and a timer that can fire again and again does
SpecTimer ==
    /\ Init
    /\ [][NextTimer]_vars
    /\ WF_vars(LoopStep)
    /\ \A e \in 1..MaxUserEvents : SF_vars(TimerFire(e))

\* the step ran schedule(event, ms) or UserEvent.schedule(ms), from the main
\* program (the outcome is in result) or from a callback (the exception unwinds)
ScheduleCalled == call.effect.kind \in {"schedule", "UserEvent.schedule"}

ScheduleRaised ==
    IF call.cb.name = call.effect.kind
    THEN result.outcome = "RuntimeError"
    ELSE err = "RuntimeError" /\ pc = "done"

\* C9: schedule(event, ms) and UserEvent.schedule(ms) raise the InvalidArgument
\* RuntimeError for every ms <= 0 and then leave every timer as it was; for
\* ms > 0 they raise nothing and install the timer.
C9_ScheduleValidates ==
    [][ScheduleCalled' =>
          IF call'.effect.ms <= 0
          THEN ScheduleRaised' /\ timers' = timers
          ELSE /\ ~ScheduleRaised' /\ err' = "none"
               /\ timers' = [timers EXCEPT ![call'.effect.ev] = call'.effect.ms]]_vars

\* Witness of C9: schedule with ms = 0 raised while a timer of the event was
\* installed, which stays installed.
C9_Witness ==
    /\ ScheduleCalled
    /\ call.effect.ms = 0
    /\ ScheduleRaised
    /\ timers[call.effect.ev] > 0

Running == pc \notin {"main", "done"}

Registered(e) == Handlers(event_handlers, UserType(e)) # <<>>

Dispatched(e) == call.type = UserType(e) /\ call.cb = UserHandler

InFlight(e) == Len(SelectSeq(queue \o batch, LAMBDA x : x = UserEv(e)))

Posts == call.effect.kind = "post"

\* C10: once schedule(event, ms) with ms > 0 has returned, then as long as the
\* loop runs and a handler is registered for the event's type the event is
\* dispatched to the handler again and again, until unschedule(event) is
\* called; after unschedule the timer puts no further occurrence on the queue.
C10_ScheduledRepeats ==
    /\ \A e \in 1..MaxUserEvents :
          (e \in scheduled /\ Running /\ Registered(e))
              ~> (Dispatched(e) \/ e \notin scheduled \/ ~Running \/ ~Registered(e))
    /\ [][\A e \in 1..MaxUserEvents :
              (e \notin scheduled /\ e \notin scheduled' /\ ~Posts')
                  => InFlight(e)' <= InFlight(e)]_vars

\* Witness of C10: the handler of a scheduled event is called by the running
\* loop while the timer has already queued the next occurrence.
C10_Witness ==
    /\ Running
    /\ 1 \in scheduled
    /\ Dispatched(1)
    /\ InFlight(1) >= 2

----------------------------------------------------------------------------
(* SpecUser: UserEvent objects are created, counted, given handlers, posted *)

CreateUserEvent ==
    /\ counter < MaxCreated
    /\ counter' = create_new_userevent(counter).counter
    /\ created' = Append(created, create_new_userevent(counter).type)
    /\ payload' = Append(payload, UserEvent_init("None", NoDict))
    /\ call' = [NoCall EXCEPT !.cb = Method(-1, "UserEvent"),
                              !.type = create_new_userevent(counter).type]
    /\ UNCHANGED <<pc, batch, idx, iterLen, obsVars, ctx_active, pg_init, err, switch, viewVars,
                   queue, timers, scheduled, regVars, cmdVars>>

GetUserEventCount ==
    /\ result' = [op |-> "get_userevent_count", outcome |-> "return",
                  value |-> get_userevent_count(counter)]
    /\ call' = [NoCall EXCEPT !.cb = Method(-1, "get_userevent_count")]
    /\ UNCHANGED <<pc, batch, idx, iterLen, obsVars, ctx_active, pg_init, err, switch, viewVars,
                   userVars, regVars, wins, _window, gfx>>

NextUser ==
    \/ CreateUserEvent
    \/ GetUserEventCount
    \/ \E i \in DOMAIN created : AddHandler(created[i], UserHandler)
    \/ \E i \in DOMAIN created : RemoveHandler(created[i], UserHandler)
    \/ \E eff \in PostEffects : UserCall(eff)

SpecUser == Init /\ [][NextUser]_vars

\* C11: the i-th UserEvent created has the type USEREVENT + i, so the types
\* are pairwise distinct, increase strictly in creation order, all lie above
\* USEREVENT and none is used twice; the counter, and what
\* get_userevent_count() returns, is the number of UserEvents created.
C11_UserEventTypes ==
    /\ \A i \in DOMAIN created : created[i] = UserType(i) /\ created[i].off > 0
    /\ \A i, j \in DOMAIN created :
          i < j => created[i].off < created[j].off /\ created[i] # created[j]
    /\ counter = Len(created)
    /\ call.cb.name = "get_userevent_count" => result.value = Len(created)
    /\ call.cb.name = "UserEvent" => call.type = UserType(Len(created))

\* Witness of C11: three UserEvents were created, the first has a handler
\* registered under its type, and get_userevent_count() was then called.
C11_Witness ==
    /\ Len(created) = 3
    /\ call.cb.name = "get_userevent_count"
    /\ result.value = 3
    /\ Handlers(event_handlers, created[1]) # <<>>
    /\ Handlers(event_handlers, created[3]) = <<>>

----------------------------------------------------------------------------
(* Claims about the hooks the Window wires at construction, under Spec *)

FocusTypes == {T("WINDOWFOCUSGAINED"), T("WINDOWFOCUSLOST")}

FocusHook(t) == IF t = T("WINDOWFOCUSGAINED") THEN "on_focus" ELSE "on_blur"

\* C12: a focus-gained or focus-lost event dispatched on a Window with the
\* default hooks calls on_focus or on_blur, which does nothing: no exception
\* is raised, no state changes, and the loop goes on with the dispatch.
C12_FocusHooksNoOp ==
    [][call'.type \in FocusTypes =>
          /\ call'.cb = Method(WindowSelf, FocusHook(call'.type))
          /\ err' = "none"
          /\ pc' = "events"
          /\ UNCHANGED <<viewVars, ctx_active, pg_init, queue, timers>>]_vars

QuitSlots == Handlers(event_handlers, T("QUIT"))

QuitDispatched == call.type = T("QUIT")

\* C13: whatever Views were constructed and shown, the QUIT entry of the
\* registry holds Window.close; a quit event dispatched by the running loop
\* calls it, which makes the run-state inactive, tears the runtime down and
\* leaves run() with SystemExit; after that this run calls no callback (not
\* for the later events of the batch, not on_update, not on_draw) and starts
\* no iteration.
C13_QuitCloses ==
    /\ [](/\ QuitSlots # <<>>
          /\ QuitSlots[1] = [name |-> "close", cb |-> Method(WindowSelf, "close")])
    /\ [][(pc = "events" /\ idx = 1 /\ Head(batch).type = T("QUIT")) => QuitDispatched']_vars
    /\ [][QuitDispatched' =>
              /\ call'.cb = Method(WindowSelf, "close")
              /\ ~ctx_active' /\ ~pg_init'
              /\ err' = "SystemExit" /\ pc' = "done"]_vars
    /\ [][pc # "done"]_vars

\* Witness of C13: with a View active, a quit event followed by another event
\* in the same batch was dispatched; run() was left with the later event
\* never dispatched.
C13_Witness ==
    /\ QuitDispatched
    /\ pc = "done" /\ err = "SystemExit"
    /\ ~ctx_active /\ ~pg_init
    /\ call.active \in Views
    /\ Len(batch) = 2 /\ batch[2].type = T("KEYDOWN")

----------------------------------------------------------------------------
(* SpecExc: the loop with callbacks that may raise or call close().        *)
(* SpecCtx: the same, and a callback may clear the context's flag itself   *)
(* (window._ctx.active = False), the one way the loop test can fail.       *)

RaiseEffect == [NoEffect EXCEPT !.kind = "raise"]

CloseEffect == [NoEffect EXCEPT !.kind = "close"]

DeactivateEffect == [NoEffect EXCEPT !.kind = "deactivate"]

ExcEffects == ViewEffects \cup {RaiseEffect, CloseEffect}

CtxEffects == ExcEffects \cup {DeactivateEffect}

ExcEvents == {Ev("QUIT"), Ev("KEYDOWN"), Ev("WINDOWSHOWN")}

NextExc ==
    \/ \E v \in Views : NewView(v)
    \/ \E v \in Views : Show(v)
    \/ \E v \in Views : ViewRun(v)
    \/ AddHandler(T("KEYDOWN"), UserHandler)
    \/ WindowRun
    \/ While
    \/ Poll(ExcEvents)
    \/ NextEvent
    \/ NextCallback(ExcEffects)
    \/ Clear
    \/ Update(ExcEffects)
    \/ Draw(ExcEffects)
    \/ Flip
    \/ Tick

SpecExc == Init /\ [][NextExc]_vars

NextCtx ==
    \/ \E v \in Views : NewView(v)
    \/ \E v \in Views : Show(v)
    \/ \E v \in Views : ViewRun(v)
    \/ AddHandler(T("KEYDOWN"), UserHandler)
    \/ WindowRun
    \/ While
    \/ Poll(ExcEvents)
    \/ NextEvent
    \/ NextCallback(CtxEffects)
    \/ Clear
    \/ Update(CtxEffects)
    \/ Draw(CtxEffects)
    \/ Flip
    \/ Tick

SpecCtx == Init /\ [][NextCtx]_vars

\* C14: the run-state is inactive from construction until run() enters the
\* loop, active while the loop runs, and inactive again once run() has been
\* left, whether by close(), by a quit event or by an exception of a callback.
C14_RunStateMachine ==
    /\ pc = "main" => ~ctx_active
    /\ Running => ctx_active
    /\ pc = "done" => ~ctx_active

ClosedByContext == <<[cb |-> Method(WindowSelf, "close"), args |-> <<>>]>>

\* C15: when the loop test finds the run-state inactive with no exception in
\* flight, the context's __exit__ sets the run-state inactive and calls
\* Window.close() exactly once, which tears the runtime down.
C15_NormalExitCloses ==
    [][(pc = "while" /\ ~ctx_active) =>
          /\ call'.cb = Method(WindowSelf, "__exit__")
          /\ call'.inner = ClosedByContext
          /\ ~ctx_active' /\ ~pg_init'
          /\ pc' = "done"]_vars

\* Witness of C15: a callback cleared the flag, the iteration ran to its end,
\* and the loop test then left the loop through __exit__, which closed.
C15_Witness ==
    /\ pc = "done"
    /\ call.cb = Method(WindowSelf, "__exit__")
    /\ call.inner = ClosedByContext
    /\ ~pg_init

CallbackRaised == err \notin {"none", "SystemExit"}

\* C16: an exception raised by a callback of the loop (an event handler,
\* on_update, on_draw) leaves run() as it was raised and stays in flight: the
\* context does not swallow it and does not call Window.close(), so the
\* runtime is not torn down.
C16_ExceptionPropagates ==
    /\ [][(err = "none" /\ CallbackRaised') =>
              /\ pc' = "done"
              /\ pg_init' /\ ctx_active' = ctx_active
              /\ \A i \in DOMAIN call'.inner : call'.inner[i].cb.name # "close"]_vars
    /\ [][call'.effect.kind = "raise" => err' = "UserError"]_vars
    /\ [][err # "none" => err' = err]_vars

\* Witness of C16: a View's on_draw raised; run() is left with the exception
\* and the runtime still initialised.
C16_Witness ==
    /\ pc = "done"
    /\ err = "UserError"
    /\ call.cb = Method(1, "on_draw")
    /\ call.effect.kind = "raise"
    /\ pg_init

----------------------------------------------------------------------------
(* SpecGfx: Windows constructed with antialiasing and vsync arguments, the *)
(* two queries, and run()                                                  *)

\* Window(antialiasing=a, vsync=v): the program goes on with the new Window,
\* its fresh EventManager and its inactive context
Construct(a, v) ==
    /\ pc = "main"
    /\ gfx' = Window_init_color(Window_init_globals(gfx, a, v), 1)
    /\ views' = {}
    /\ bind' = DefaultBind
    /\ event_handlers' = register_events(EmptyManager, DefaultBind)
    /\ ctx_active' = FALSE
    /\ _window' = set_window(_window, 1)
    /\ call' = [NoCall EXCEPT !.cb = Method(WindowSelf, "__init__")]
    /\ result' = NoResult
    /\ recent' = <<>>
    /\ UNCHANGED <<pc, batch, idx, iterLen, obsVars, pg_init, err, switch, userVars, hist, wins>>

Query(name, value) ==
    /\ pc = "main"
    /\ result' = [op |-> name, outcome |-> "return", value |-> value]
    /\ call' = [NoCall EXCEPT !.cb = Method(-1, name)]
    /\ UNCHANGED <<pc, batch, idx, iterLen, obsVars, ctx_active, pg_init, err, switch, viewVars,
                   userVars, regVars, wins, _window, gfx>>

IsAAEnabled == Query("is_aa_enabled", is_aa_enabled(gfx))

IsVsyncEnabled == Query("is_vsync_enabled", is_vsync_enabled(gfx))

GfxEvents == {Ev("QUIT"), Ev("KEYDOWN"), Ev("WINDOWFOCUSLOST")}

NextGfx ==
    \/ \E a, v \in Flags : Construct(a, v)
    \/ IsAAEnabled
    \/ IsVsyncEnabled
    \/ AddHandler(T("KEYDOWN"), UserHandler)
    \/ WindowRun
    \/ While
    \/ Poll(GfxEvents)
    \/ NextEvent
    \/ NextCallback({NoEffect})
    \/ Clear
    \/ Update({NoEffect})
    \/ Draw({NoEffect})
    \/ Flip
    \/ Tick

SpecGfx == Init /\ [][NextGfx]_vars

\* C17: after Window(antialiasing=a, vsync=v), is_aa_enabled() returns a and
\* is_vsync_enabled() returns v, and run() gives display.set_mode the vsync
\* value v of the Window constructed last.
C17_QueriesReflectWindow ==
    /\ call.cb.name = "is_aa_enabled" => result.value = gfx.antialiasing
    /\ call.cb.name = "is_vsync_enabled" => result.value = gfx.vsync
    /\ call.cb.name \in {"is_aa_enabled", "is_vsync_enabled"} => result.value \in Flags
    /\ gfx.set_mode_vsync # "none" => gfx.set_mode_vsync = gfx.vsync

----------------------------------------------------------------------------
(* Claims about the order of the loop and of the dispatch *)

LoopOrder == <<"check", "poll", "dispatch", "clear", "on_update", "on_draw", "flip", "tick">>

IsPrefix(s, t) == Len(s) <= Len(t) /\ s = SubSeq(t, 1, Len(s))

\* C18: an iteration of the run loop reads the run-state once, at the loop
\* test, then dispatches all pending events, clears, calls on_update, calls
\* on_draw, presents and throttles, in this order, with no step skipped or
\* repeated; a callback runs only at its own step, so on_update and on_draw
\* never run while the handlers of an event are being called.
C18_LoopOrder ==
    /\ IsPrefix(steps, LoopOrder)
    /\ pc = "while" => steps \in {<<>>, LoopOrder}
    /\ pc \in {"clear", "update", "draw", "flip", "tick"} => batch = <<>> /\ idx = 0
    /\ call.type # T("NONE") => steps = <<"check", "poll">>
    /\ (call.type = T("NONE") /\ call.cb.name \in {"on_update", "on_draw"})
          => steps[Len(steps)] = call.cb.name

\* Witness of C18: with a View active, an iteration ran through all its
\* steps without an exception and is back at the loop test.
C18_Witness ==
    /\ pc = "while"
    /\ steps = LoopOrder
    /\ bind["on_draw"] \in Views
    /\ err = "none"

----------------------------------------------------------------------------
(* SpecDispatch: handle_events on a queue that holds posted user events    *)
(* and system events, with handlers added and removed before the loop      *)

DispatchEvents == {Ev("KEYDOWN"), Ev("WINDOWSHOWN")}

DispatchEffects == ViewEffects \cup PostEffects

NextDispatch ==
    \/ \E v \in Views : NewView(v)
    \/ NewUserEvent
    \/ AddHandler(T("KEYDOWN"), UserHandler)
    \/ \E e \in UserEvents : AddHandler(UserType(e), UserHandler)
    \/ \E e \in UserEvents : RemoveHandler(UserType(e), UserHandler)
    \/ \E eff \in PostEffects : UserCall(eff)
    \/ WindowRun
    \/ While
    \/ Poll(DispatchEvents)
    \/ NextEvent
    \/ NextCallback(DispatchEffects)
    \/ Clear
    \/ Update(DispatchEffects)
    \/ Draw(DispatchEffects)
    \/ Flip
    \/ Tick

SpecDispatch == Init /\ [][NextDispatch]_vars

\* the events of the batch that handle_events is through with
Finished == Len(polled) - Len(batch)

Expect(k) == [i \in DOMAIN snap[k] |-> [ev |-> k, cb |-> snap[k][i]]]

RECURSIVE ExpectUpTo(_)
ExpectUpTo(n) == IF n = 0 THEN <<>> ELSE ExpectUpTo(n - 1) \o Expect(n)

Unhandled == pc = "events" /\ idx = 0 /\ batch # <<>>
                /\ Handlers(event_handlers, Head(batch).type) = <<>>

\* C19: handle_events takes the whole pending queue, in the order the events
\* were queued, and goes through it front to back: for each event every
\* callback registered for its type when the event's turn comes is called
\* exactly once, in registration order, and all of them before any callback
\* of a later event; an event whose type is absent from the registry, or has
\* an empty handler table, causes no call and no exception.
C19_FifoDispatch ==
    /\ []((pc \in {"events", "clear"} /\ err = "none") =>
            /\ batch = SubSeq(polled, Finished + 1, Len(polled))
            /\ Len(snap) = Finished + (IF idx > 0 THEN 1 ELSE 0)
            /\ log = ExpectUpTo(Finished)
                        \o (IF idx > 0 THEN SubSeq(Expect(Finished + 1), 1, idx - 1) ELSE <<>>)
            /\ pc = "clear" => batch = <<>> /\ Len(snap) = Len(polled))
    /\ [][pc = "poll" =>
              /\ queue' = <<>>
              /\ Len(polled') >= Len(queue)
              /\ SubSeq(polled', 1, Len(queue)) = queue
              /\ batch' = polled']_vars
    /\ [][Unhandled =>
              /\ batch' = Tail(batch)
              /\ snap' = Append(snap, <<>>)
              /\ log' = log /\ call' = NoCall
              /\ err' = "none" /\ pc' = "events"]_vars

\* Witness of C19: a posted user event and then a KEYDOWN were taken from the
\* queue; the user event's handler was called first, then the two KEYDOWN
\* callbacks in registration order, and handle_events returned.
C19_Witness ==
    /\ pc = "clear" /\ err = "none"
    /\ Len(polled) = 2
    /\ polled[1] = UserEv(1) /\ polled[2] = Ev("KEYDOWN")
    /\ log = << [ev |-> 1, cb |-> UserHandler],
                [ev |-> 2, cb |-> Method(bind["on_key_press"], "on_key_press")],
                [ev |-> 2, cb |-> UserHandler] >>

----------------------------------------------------------------------------
(* Claims about the binding set the loop reads, under Spec *)

Owners == Views \cup {WindowSelf}

\* C20: in every state in which the dispatch or the update/draw step reads a
\* binding, the nine installable bindings and the registry slots made from
\* them belong to one owner, a View or the Window itself, and no binding or
\* slot refers to another View, also when show() or a construction ran inside
\* a handler; an installable callback that is called is the one of the owner
\* the step found.
C20_BindingsOneOwner ==
    /\ \E o \in Owners :
          /\ OwnedBy(bind, event_handlers, o)
          /\ \A v \in Views \ {o} : ~RefersTo(bind, event_handlers, v)
    /\ call.cb.name \in Installed => call.cb.owner = call.active

\* Witness of C20: View 1's handler, called by the dispatch, showed View 2;
\* the dispatch of the event is still going on and reads View 2's bindings.
C20_Witness ==
    /\ pc = "events" /\ idx > 0
    /\ switch = "during"
    /\ call.cb.owner = 1 /\ call.cb.name \in Installed
    /\ call.effect.kind = "show" /\ call.effect.view = 2
    /\ OwnedBy(bind, event_handlers, 2)

----------------------------------------------------------------------------
(* Claims about activation while the loop runs, under Spec *)

\* C21: once a callback of the running loop has shown View B, B owns the
\* bindings and their slots, and every installable handler called from then
\* on, for the events left in the batch already drained, for the events of
\* later poll cycles, and as on_update and on_draw of the current iteration,
\* is B's, until another View is shown or constructed.
C21_ShowRoutesToNewView ==
    /\ [](shown # 0 => OwnedBy(bind, event_handlers, shown))
    /\ [][(shown # 0 /\ call'.cb.name \in Installed) => call'.cb.owner = shown]_vars

\* Witness of C21: View 1's on_key_press, called for the first event of a
\* batch, showed View 2, and the second event of the same batch, a KEYUP, was
\* dispatched to View 2's on_key_release.
C21_Witness ==
    /\ shown = 2
    /\ call.cb = Method(2, "on_key_release")
    /\ Len(log) = 2
    /\ log[1] = [ev |-> 1, cb |-> Method(1, "on_key_press")]
    /\ log[2] = [ev |-> 2, cb |-> Method(2, "on_key_release")]

ShowCalled(v) ==
    \/ call.cb \in {Method(v, "show"), Method(v, "run")}
    \/ call.effect.kind = "show" /\ call.effect.view = v

SetupCalls(c, v) == {i \in DOMAIN c.inner : c.inner[i].cb = Method(v, "setup")}

\* C22: View.show() installs the View's methods as the Window's bindings,
\* rebuilds the registry from them and then calls the View's setup() once, so
\* that setup() finds the bindings and slots already the View's; View.run()
\* does the same and then enters the Window's loop.
C22_ShowThenSetup ==
    /\ \A v \in Views :
          ShowCalled(v) =>
              /\ Cardinality(SetupCalls(call, v)) = 1
              /\ Len(call.setup) = 1
              /\ call.setup[1].view = v
              /\ OwnedBy(call.setup[1].bind, call.setup[1].eh, v)
              /\ OwnedBy(bind, event_handlers, v)
    /\ \A v \in Views :
          call.cb = Method(v, "run") => pc = "while" /\ ctx_active /\ steps = <<>>

\* Witness of C22: with View 2 constructed last, and so installed, View 1's
\* run() installed View 1, called its setup() and entered the loop.
C22_Witness ==
    /\ views = {1, 2}
    /\ call.cb = Method(1, "run")
    /\ call.setup = <<Seen(Cur, 1)>>
    /\ pc = "while"

----------------------------------------------------------------------------
(* SpecPost: UserEvent objects with a payload, posted with attributes by   *)
(* the main program and by on_update, and dispatched by the loop           *)

MaxItems == 2

Items == {<<f, x>> : f \in Fields, x \in Values}

\* the items of a dict: no name twice
ItemSeqs(n) ==
    {s \in SeqsUpTo(Items, n) : \A i, j \in DOMAIN s : s[i][1] = s[j][1] => i = j}

Dicts(n) == {NoDict} \cup {[given |-> "dict", items |-> s] : s \in ItemSeqs(n)}

Names == {"None", "p"}

\* UserEvent(name, _dict)
NewUserEventWith(name, d) ==
    /\ pc = "main"
    /\ counter < MaxUserEvents
    /\ counter' = create_new_userevent(counter).counter
    /\ created' = Append(created, create_new_userevent(counter).type)
    /\ payload' = Append(payload, UserEvent_init(name, d))
    /\ call' = [NoCall EXCEPT !.cb = Method(-1, "UserEvent"),
                              !.effect = [NoEffect EXCEPT !.dict = d]]
    /\ UNCHANGED <<pc, batch, idx, iterLen, obsVars, ctx_active, pg_init, err, switch, viewVars,
                   queue, timers, scheduled, regVars, cmdVars>>

PostDictEffects ==
    {[Eff("post", e, 0) EXCEPT !.dict = d] :
        e \in {x \in UserEvents : Len(queue) < MaxQueue}, d \in Dicts(MaxItems)}

NextPost ==
    \/ \E name \in Names, d \in Dicts(1) : NewUserEventWith(name, d)
    \/ \E e \in UserEvents : AddHandler(UserType(e), UserHandler)
    \/ \E eff \in PostDictEffects : UserCall(eff)
    \/ WindowRun
    \/ While
    \/ Poll({Ev("WINDOWSHOWN")})
    \/ NextEvent
    \/ NextCallback({NoEffect})
    \/ Clear
    \/ Update({NoEffect} \cup PostDictEffects)
    \/ Draw({NoEffect})
    \/ Flip
    \/ Tick

SpecPost == Init /\ [][NextPost]_vars

\* the payload p overridden field by field with the attributes d
Overridden(p, d) ==
    [f \in Fields |->
        IF \E i \in DOMAIN d.items : d.items[i][1] = f
        THEN (CHOOSE x \in Values : \E i \in DOMAIN d.items : d.items[i] = <<f, x>>)
        ELSE p[f]]

Occurrences(q, e) == Len(SelectSeq(q, LAMBDA x : x = UserEv(e)))

\* C23 as amended: post(attrs) leaves the event's payload equal to the previous
\* payload overridden field by field with attrs (None or an empty dict changes
\* nothing) and appends exactly one occurrence of the event to the queue; no
\* other step changes a payload; the next handle_events() takes every queued
\* occurrence and calls each handler registered for the event's type once per
\* occurrence, with no arguments, while the event's payload is the one left by
\* the last post() made before the dispatch.
C23_PostMergesAndEnqueues ==
    /\ [][call'.effect.kind = "post" =>
              /\ payload' = [payload EXCEPT ![call'.effect.ev] = Overridden(@, call'.effect.dict)]
              /\ ~Truthy(call'.effect.dict) => payload' = payload
              /\ queue' = Append(queue, UserEv(call'.effect.ev))]_vars
    /\ [][(call'.effect.kind # "post" /\ Len(payload') = Len(payload)) => payload' = payload]_vars
    /\ [][pc = "poll" =>
              /\ queue' = <<>>
              /\ \A e \in UserEvents : Occurrences(polled', e) = Occurrences(queue, e)]_vars
    /\ []((pc = "clear" /\ err = "none") =>
              \A i \in DOMAIN polled : \A e \in UserEvents :
                  polled[i] = UserEv(e) =>
                      /\ snap[i] = Callbacks(Handlers(event_handlers, UserType(e)))
                      /\ \A cb \in {snap[i][k] : k \in DOMAIN snap[i]} :
                            Cardinality({j \in DOMAIN log : log[j] = [ev |-> i, cb |-> cb]}) = 1)
    /\ [](\A e \in UserEvents : call.type = UserType(e) => call.args = <<>>)

\* Witness of C23: a UserEvent made with the name p and the field a = p was
\* posted with {a: q, b: p}; handle_events took the occurrence and called the
\* handler registered for its type while the payload is the merged one.
C23_Witness ==
    /\ pc = "events"
    /\ polled = <<UserEv(1)>>
    /\ call.cb = UserHandler /\ call.type = UserType(1)
    /\ payload[1] = [pgf_name |-> "p", a |-> "q", b |-> "p"]

\* C23 as stated: the occurrence that a post() appended is delivered carrying
\* the payload that this post() merged, so the payload of an event does not
\* change while an occurrence of it is queued or being dispatched.
C23_OccurrenceCarriesItsMerge ==
    [][\A e \in UserEvents : InFlight(e) > 0 => payload'[e] = payload[e]]_vars

----------------------------------------------------------------------------
(* Claims about the arguments handle_events gives to a callback *)

\* the number of arguments a callback of an event of type t is called with
ArgCount(t) ==
    CASE t \in {T("KEYUP"), T("KEYDOWN"), T("WINDOWENTER"), T("WINDOWLEAVE"),
                T("WINDOWRESIZED")} -> 2
      [] t \in {T("MOUSEBUTTONUP"), T("MOUSEBUTTONDOWN"), T("MOUSEWHEEL")} -> 4
      [] t = T("MOUSEMOTION") -> 6
      [] OTHER -> 0

EventCall == call.type # T("NONE") /\ call.cb # NoCall.cb

\* C24: a callback of a key event is called with 2 arguments, of an enter or
\* leave event with 2, of a motion event with 6, of a button event with 4, of
\* a wheel event with 4, of a resize event with 2 and of any other type
\* (quit, focus gained or lost, custom) with none, and every method of the
\* Window or of a View that the Window wired to a type accepts the number of
\* arguments it is called with.
C24_ArgumentsMatchHandlers ==
    /\ EventCall => Len(call.args) = ArgCount(call.type)
    /\ (EventCall /\ call.cb.owner # -1) =>
            /\ Accepts(call.cb, Len(call.args))
            /\ err # "TypeError"

----------------------------------------------------------------------------
(* SpecCancel: several user events, their timers set and cancelled by the  *)
(* main program while the timers fire                                      *)

MaxTimers == 2

NextCancel ==
    \/ counter < MaxTimers /\ CreateUserEvent
    \/ \E i \in DOMAIN created : AddHandler(created[i], UserHandler)
    \/ \E eff \in ScheduleEffects \cup UnscheduleEffects : UserCall(eff)
    \/ \E e \in UserEvents : TimerFire(e)

SpecCancel == Init /\ [][NextCancel]_vars

Unschedules(c) == c.effect.kind \in {"unschedule", "UserEvent.unschedule"}

\* C25: unschedule(event), as the function and as UserEvent.unschedule(),
\* cancels the timer of exactly that event and returns without an exception,
\* whether or not a timer of the event is active; with none active it changes
\* nothing, so a second call right after the first changes nothing; the timers
\* of the other events, the registry, the queue and the payloads are left as
\* they were.
C25_UnscheduleCancelsOne ==
    [][Unschedules(call') =>
          /\ timers'[call'.effect.ev] = 0
          /\ \A e \in DOMAIN timers : e # call'.effect.ev => timers'[e] = timers[e]
          /\ result'.outcome = "return" /\ err' = "none"
          /\ timers[call'.effect.ev] = 0 => timers' = timers
          /\ (Unschedules(call) /\ call.effect.ev = call'.effect.ev) => timers' = timers
          /\ UNCHANGED <<viewVars, queue, payload, counter, created>>]_vars

\* Witness of C25: with the timers of events 1 and 2 set, unschedule of
\* event 1 returned; the timer of event 1 is off and that of event 2 is on.
C25_Witness ==
    /\ Unschedules(call) /\ call.effect.ev = 1
    /\ result.outcome = "return"
    /\ timers[1] = 0 /\ timers[2] = MaxMs
    /\ scheduled = {2}
    /\ Handlers(event_handlers, UserType(1)) # <<>>

----------------------------------------------------------------------------
(* SpecColor: the background colour, set and read through the Window, its  *)
(* Views and window_commands while the loop clears with it                 *)

\* the Window the Views of the model were constructed on, whose loop runs
ViewWindow == 1

\* View.background_color, the property: return self.window.background_color
View_background_color(g, v) == Window_background_color(g, ViewWindow)

View_set_background_color_own(g, v, value) == g

\* View.background_color = value: self.window.background_color = value
View_set_background_color(g, v, value) == Window_set_background_color(g, ViewWindow, value)

\* get_window().background_color = color
set_background_color(g, cur, color) ==
    IF get_window(cur).outcome # "return"
    THEN [outcome |-> get_window(cur).outcome, gfx |-> g]
    ELSE [outcome |-> "return",
          gfx |-> Window_set_background_color(g, get_window(cur).value, color)]

\* where user code runs: the main program and the callbacks of the loop
UserCode == pc \in {"main", "events", "update", "draw"}

ColorStep(op, target, outcome, value) ==
    /\ UserCode
    /\ result' = [op |-> op, outcome |-> outcome, value |-> value]
    /\ call' = [NoCall EXCEPT !.cb = Method(-1, op), !.active = target]
    /\ UNCHANGED <<pc, batch, idx, iterLen, obsVars, ctx_active, pg_init, err, switch, viewVars,
                   userVars, regVars, wins, _window>>

SetWindowColor(w, c) ==
    /\ w \in wins
    /\ gfx' = Window_set_background_color(gfx, w, c)
    /\ ColorStep("Window.background_color=", w, "return", c)

GetWindowColor(w) ==
    /\ w \in wins
    /\ gfx' = gfx
    /\ ColorStep("Window.background_color", w, "return", Window_background_color(gfx, w))

SetViewColor(v, c) ==
    /\ v \in views
    /\ gfx' = View_set_background_color(gfx, v, c)
    /\ ColorStep("View.background_color=", v, "return", c)

GetViewColor(v) ==
    /\ v \in views
    /\ gfx' = gfx
    /\ ColorStep("View.background_color", v, "return", View_background_color(gfx, v))

SetBackgroundColor(c) ==
    /\ gfx' = set_background_color(gfx, _window, c).gfx
    /\ ColorStep("set_background_color", _window, set_background_color(gfx, _window, c).outcome, c)

\* Window() constructed by user code: a second Window becomes the active one
AnotherWindow(w) ==
    /\ UserCode
    /\ w \in Windows \ wins
    /\ Cardinality(wins) < 2
    /\ wins' = wins \cup {w}
    /\ _window' = set_window(_window, w)
    /\ gfx' = Window_init_color(Window_init_globals(gfx, "False", "False"), w)
    /\ result' = [op |-> "Window", outcome |-> "return", value |-> "white"]
    /\ call' = [NoCall EXCEPT !.cb = Method(-1, "Window"), !.active = w]
    /\ UNCHANGED <<pc, batch, idx, iterLen, obsVars, ctx_active, pg_init, err, switch, viewVars,
                   userVars, regVars>>

NextColor ==
    \/ \E v \in Views : NewView(v)
    \/ \E w \in Windows : AnotherWindow(w)
    \/ \E w \in Windows, c \in Colors : SetWindowColor(w, c)
    \/ \E w \in Windows : GetWindowColor(w)
    \/ \E v \in Views, c \in Colors : SetViewColor(v, c)
    \/ \E v \in Views : GetViewColor(v)
    \/ \E c \in Colors : SetBackgroundColor(c)
    \/ WindowRun
    \/ While
    \/ Poll({Ev("KEYDOWN")})
    \/ NextEvent
    \/ NextCallback({NoEffect})
    \/ Clear
    \/ Update({NoEffect})
    \/ Draw({NoEffect})
    \/ Flip
    \/ Tick

SpecColor == Init /\ [][NextColor]_vars

ColorSets == {"Window.background_color=", "View.background_color=", "set_background_color"}

\* the Window a colour call is about
ColorTarget(c, active) ==
    CASE c.cb.name \in {"View.background_color=", "View.background_color"} -> ViewWindow
      [] c.cb.name = "set_background_color" -> active
      [] OTHER -> c.active

\* C26: the background colour is state of the Window: a write through
\* Window.background_color, through View.background_color of a View of the
\* Window or through set_background_color() while the Window is the active
\* one sets the Window's colour and nothing else; nothing but a write changes
\* it; a read through the Window or a View returns the colour written last
\* and changes nothing; the clear step of the loop fills with the colour the
\* Window has at that step.
C26_BackgroundColorShared ==
    /\ [][(call'.cb.name \in ColorSets /\ call'.cb.owner = -1) =>
              /\ result'.outcome = "return"
              /\ gfx' = [gfx EXCEPT !._background_color[ColorTarget(call', _window)] = result'.value]
              /\ UNCHANGED <<viewVars, userVars, wins, _window, pc, ctx_active, pg_init, err>>]_vars
    /\ [][(call'.cb.name \notin ColorSets \cup {"Window"}) =>
              gfx'._background_color = gfx._background_color]_vars
    /\ [][(call'.cb.name \in {"Window.background_color", "View.background_color"}
             /\ call'.cb.owner = -1) =>
              /\ result'.value = gfx._background_color[ColorTarget(call', _window)]
              /\ UNCHANGED <<gfx, viewVars, userVars, wins, _window, pc, ctx_active, pg_init, err>>]_vars
    /\ [][pc = "clear" =>
              /\ call'.cb = Method(WindowSelf, "clear")
              /\ call'.args = <<gfx._background_color[ViewWindow]>>]_vars

\* Witness of C26: the Window of View 1 was made red, a second Window was
\* constructed, became the active one and was made black, and the clear step
\* of the first Window's loop filled with red.
C26_Witness ==
    /\ call.cb = Method(WindowSelf, "clear")
    /\ call.args = <<"red">>
    /\ wins = {1, 2} /\ _window = 2
    /\ gfx._background_color[2] = "black"
    /\ views = {1}

----------------------------------------------------------------------------
(* Claims about the keys of the registry, under Spec *)

\* the (event type, slot name) keys of a registry
Keys(eh) == UNION {{<<t, eh[t][i].name>> : i \in DOMAIN eh[t]} : t \in DOMAIN eh}

\* the slots of type t whose name is n
Named(eh, t, n) == {i \in DOMAIN Handlers(eh, t) : eh[t][i].name = n}

\* the slots that stay the Window's own methods
WindowOnly == {"close", "on_focus", "on_blur", "__on_mouse_motion", "on_resize"}

\* a step in which a View was constructed or shown, by the main program or
\* by a callback
ViewStep(c) ==
    \/ c.cb.owner \in Views /\ c.cb.name \in {"__init__", "show", "run"}
    \/ c.effect.kind \in {"show", "new"}

\* C27: a construction of a View or a show() leaves the set of (event type,
\* slot name) keys of the registry as it was; each of the twelve built-in
\* types has exactly one slot wired by the Window, under the name of the
\* method; the slots of quit, focus, blur, motion and resize are the Window's
\* own methods whatever View is installed, those of the key, mouse button,
\* scroll, enter and leave types are the methods of the Window or of one View;
\* a user handler registered under another name is still registered, with the
\* same callable, after the step.
C27_KeysStable ==
    /\ [][ViewStep(call') =>
              /\ Keys(event_handlers') = Keys(event_handlers)
              /\ \A t \in DOMAIN event_handlers :
                    Len(event_handlers'[t]) = Len(event_handlers[t])
              /\ HasSlot(event_handlers, T("KEYDOWN"), UserHandler)
                    => HasSlot(event_handlers', T("KEYDOWN"), UserHandler)]_vars
    /\ [](\A r \in DOMAIN Registrations :
            LET t == T(Registrations[r][1])
                n == Registrations[r][2]
            IN  /\ Cardinality(Named(event_handlers, t, n)) = 1
                /\ {event_handlers[t][i].name : i \in DOMAIN event_handlers[t]} \cap WindowAttrs = {n}
                /\ \A i \in Named(event_handlers, t, n) :
                      /\ event_handlers[t][i].cb.name = n
                      /\ n \in WindowOnly => event_handlers[t][i].cb = Method(WindowSelf, n)
                      /\ n \notin WindowOnly => event_handlers[t][i].cb.owner \in Owners)

\* Witness of C27: with a user handler registered for KEYDOWN, View 1 and
\* View 2 were constructed and View 1 shown; the key slot is View 1's, the
\* quit slot the Window's, and the user handler is still registered.
C27_Witness ==
    /\ call.cb = Method(1, "show")
    /\ views = {1, 2}
    /\ HasSlot(event_handlers, T("KEYDOWN"), UserHandler)
    /\ HasSlot(event_handlers, T("KEYDOWN"), Method(1, "on_key_press"))
    /\ HasSlot(event_handlers, T("QUIT"), Method(WindowSelf, "close"))
    /\ Len(event_handlers[T("KEYDOWN")]) = 2

----------------------------------------------------------------------------
(* SpecReentrant: callbacks that add and remove handlers while             *)
(* handle_events goes through the handlers of an event                     *)

OtherHandler == Method(-1, "other")

KeyTypes == {T("KEYDOWN"), T("KEYUP")}

\* add_event_handler(t, other) with a name not yet registered, and
\* remove_event_handler(t, handler) of a registered one, called by a callback
HandlerEffects ==
    {[NoEffect EXCEPT !.kind = "add_event_handler", !.type = t, !.handler = OtherHandler.name] :
        t \in {x \in KeyTypes : ~HasSlot(event_handlers, x, OtherHandler)}}
    \cup
    {[NoEffect EXCEPT !.kind = "remove_event_handler", !.type = t, !.handler = UserHandler.name] :
        t \in {x \in KeyTypes : HasSlot(event_handlers, x, UserHandler)}}

NextReentrant ==
    \/ \E t \in KeyTypes : AddHandler(t, UserHandler)
    \/ WindowRun
    \/ While
    \/ Poll({Ev("KEYDOWN"), Ev("KEYUP")})
    \/ NextEvent
    \/ NextCallback({NoEffect} \cup HandlerEffects)
    \/ Clear
    \/ Update({NoEffect})
    \/ Draw({NoEffect})
    \/ Flip
    \/ Tick

SpecReentrant == Init /\ [][NextReentrant]_vars

\* C28: a callback called by handle_events may add a handler under a new name
\* or remove a registered one, for any type, the one being dispatched
\* included: the dispatch raises no error, and when handle_events returns
\* every handler that was registered when its event's turn came and has not
\* been removed was called exactly once, and every event of the batch was
\* dispatched.
C28_ReentrantRegistration ==
    /\ err # "RuntimeError"
    /\ pc = "clear" =>
          /\ Len(snap) = Len(polled)
          /\ \A k \in DOMAIN snap : \A i \in DOMAIN snap[k] :
                HasSlot(event_handlers, polled[k].type, snap[k][i])
                    => Cardinality({j \in DOMAIN log : log[j] = [ev |-> k, cb |-> snap[k][i]]}) = 1

----------------------------------------------------------------------------
(* Claims about the ways out of run(), under SpecCtx *)

\* how many times the step observed in c called Window.close(): as the slot
\* of a quit event, from the user code of a callback, or from __exit__
CloseCount(c) ==
    (IF c.cb = Method(WindowSelf, "close") THEN 1 ELSE 0)
    + (IF c.effect.kind = "close" THEN 1 ELSE 0)
    + Cardinality({i \in DOMAIN c.inner : c.inner[i].cb.name = "close"})

\* C29: run() is never left normally, and the runtime is torn down at most
\* once in a run: a step calls close() at most once, only while the runtime is
\* still up, and the call tears the runtime down, raises the exit condition
\* and ends the run; run() is left only with an exception in flight; the
\* context's __exit__ calls close() only when the loop test failed with no
\* exception in flight and the runtime up, never after a close() made inside
\* the loop.
C29_ExitOnlyByException ==
    /\ [](pc = "done" => err # "none")
    /\ [](~pg_init => pc = "done" /\ err = "SystemExit")
    /\ [][CloseCount(call') > 0 =>
              /\ CloseCount(call') = 1
              /\ pg_init /\ ~pg_init'
              /\ ~ctx_active'
              /\ err = "none" /\ err' = "SystemExit"
              /\ pc' = "done"]_vars
    /\ [][call'.cb = Method(WindowSelf, "__exit__") =>
              pc = "while" /\ ~ctx_active /\ pg_init /\ err = "none"]_vars
    /\ [][pc = "done" => UNCHANGED <<pg_init, err, ctx_active>>]_vars

\* Witness of C29: a View's handler called close() while an event was being
\* dispatched; run() was left with SystemExit, the runtime torn down, and
\* the context did not call close() again.
C29_Witness ==
    /\ pc = "done"
    /\ err = "SystemExit"
    /\ ~pg_init
    /\ call.cb = Method(1, "on_key_press")
    /\ call.effect.kind = "close"
    /\ CloseCount(call) = 1

====
